---- MODULE Spec2Model ----
(***************************************************************************)
(* Model of boilersuite's boilerplate checker (internal/boilersuite).      *)
(*                                                                         *)
(* Text is a sequence of tokens.  A token is one character (LF, CR, SP,    *)
(* "#", "/", "*", "!", "x") or one literal word the patterns treat as a    *)
(* unit ("Copyright", a year, a marker, an author name ...).  Offsets are  *)
(* counted in tokens; every slice the code takes falls on a token border.  *)
(***************************************************************************)
EXTENDS Integers, Sequences, FiniteSets, TLC

VARIABLES phase, tmplIn, tmpl, content, res, now, lookup, run, calls

vars == <<phase, tmplIn, tmpl, content, res, now, lookup, run, calls>>

-----------------------------------------------------------------------------
(* Tokens *)

LF == "\n"
CR == "\r"
SP == " "
TXT == "x"

YearMarker == "<<YEAR>>"
AuthorMarker == "<<AUTHOR>>"
CopyrightWord == "Copyright"
CopyrightMarker == <<CopyrightWord, SP, YearMarker>>

SkipWord == "+skip_license_check"
DoNotEdit == "DO NOT EDIT."
GoBuild == "go:build"
PlusBuild == "+build"

\* years the pattern 20\d\d accepts, and one it does not; ThisYear is the
\* calendar year when a run starts and NextYear the one after it (now: the clock)
ThisYear == "2026"
NextYear == "2027"
Years == {"2000", ThisYear, NextYear}
OldYear == "1999"

-----------------------------------------------------------------------------
(* strings package *)

IsSpace(c) == c \in {SP, LF, CR}

Min(S) == CHOOSE m \in S : \A k \in S : m <= k
Max(S) == CHOOSE m \in S : \A k \in S : m >= k

\* s[a:b] with Go's 0-based half-open offsets
Slice(s, a, b) == SubSeq(s, a + 1, b)

HasPrefix(s, p) == Len(p) <= Len(s) /\ SubSeq(s, 1, Len(p)) = p
HasSuffix(s, p) == Len(p) <= Len(s) /\ SubSeq(s, Len(s) - Len(p) + 1, Len(s)) = p

\* the sub-sequence sub starts at (1-based) position i of s
MatchAt(s, i, sub) ==
    /\ i >= 1
    /\ i + Len(sub) - 1 <= Len(s)
    /\ \A k \in 1..Len(sub) : s[i + k - 1] = sub[k]

Contains(s, sub) == \E i \in 1..(Len(s) + 1) : MatchAt(s, i, sub)

TrimSpace(s) ==
    LET keep == {i \in 1..Len(s) : ~IsSpace(s[i])}
    IN  IF keep = {} THEN <<>> ELSE SubSeq(s, Min(keep), Max(keep))

TrimLeftSpace(s) ==
    LET keep == {i \in 1..Len(s) : ~IsSpace(s[i])}
    IN  IF keep = {} THEN <<>> ELSE SubSeq(s, Min(keep), Len(s))

RECURSIVE ReplaceFrom(_, _, _, _)
ReplaceFrom(s, i, old, new) ==
    IF i > Len(s) THEN <<>>
    ELSE IF MatchAt(s, i, old)
         THEN new \o ReplaceFrom(s, i + Len(old), old, new)
         ELSE <<s[i]>> \o ReplaceFrom(s, i + 1, old, new)

\* strings.ReplaceAll, old non-empty
ReplaceAll(s, old, new) == ReplaceFrom(s, 1, old, new)

\* 1-based positions at which a line of s starts
LineStarts(s) == {i \in 1..Len(s) : i = 1 \/ s[i - 1] = LF}

\* end (1-based, inclusive) of the line that starts at i: its LF, or the end of s
LineEnd(s, i) ==
    LET lfs == {k \in i..Len(s) : s[k] = LF}
    IN  IF lfs = {} THEN Len(s) ELSE Min(lfs)

\* strings.Lines: the lines of s in order, each with its terminating LF
Lines(s) ==
    LET starts == LineStarts(s)
        before(i) == Cardinality({j \in starts : j <= i})
        byRank == [k \in 1..Cardinality(starts) |->
                     CHOOSE i \in starts : before(i) = k]
    IN  [k \in 1..Cardinality(starts) |-> SubSeq(s, byRank[k], LineEnd(s, byRank[k]))]

-----------------------------------------------------------------------------
(* Marker/Pattern set *)

\* position q is an end of line: `$` under (?m) holds at the end of the text
\* and before LF only (a CR before the LF is an ordinary character)
AtEndOfLine(s, q) == q = Len(s) + 1 \/ (q <= Len(s) /\ s[q] = LF)

\* CopyrightRegex.FindStringSubmatch(l): <<>> when l has no match, else
\* <<whole match, year group>>; the year group is "" when no year follows
CopyrightRegexFind(l) ==
    LET hits == {i \in 1..(Len(l) - 1) : l[i] = CopyrightWord /\ l[i + 1] = SP}
    IN  IF hits = {} THEN <<>>
        ELSE LET i == Min(hits)
             IN  IF i + 2 <= Len(l) /\ l[i + 2] \in Years
                 THEN <<SubSeq(l, i, i + 2), l[i + 2]>>
                 ELSE <<SubSeq(l, i, i + 1), "">>

\* SkipFileRegex.MatchString: (?m)^(\/\/|#) \+skip_license_check$
SkipFileRegexMatch(s) ==
    \E p \in LineStarts(s) :
        \/ MatchAt(s, p, <<"/", "/", SP, SkipWord>>) /\ AtEndOfLine(s, p + 4)
        \/ MatchAt(s, p, <<"#", SP, SkipWord>>) /\ AtEndOfLine(s, p + 3)

\* GeneratedRegex.MatchString: (?m)^[\/*#]+.*DO NOT EDIT\.$
GeneratedRegexMatch(s) ==
    \E p \in LineStarts(s) :
        /\ s[p] \in {"/", "*", "#"}
        /\ \E q \in (p + 1)..LineEnd(s, p) :
              s[q] = DoNotEdit /\ AtEndOfLine(s, q + 1)

\* ShebangRegex.FindStringIndex: (?m)^#!.*\n ; 0 stands for "no match",
\* else the end offset of the leftmost match
ShebangRegexEnd(s) ==
    LET hits == {p \in LineStarts(s) :
                    /\ MatchAt(s, p, <<"#", "!">>)
                    /\ s[LineEnd(s, p)] = LF}
    IN  IF hits = {} THEN 0 ELSE LineEnd(s, Min(hits))

\* one line  \/\/(go:build| \+build).*\n  starting at p
IsBuildLine(s, p) ==
    /\ p <= Len(s)
    /\ \/ MatchAt(s, p, <<"/", "/", GoBuild>>)
       \/ MatchAt(s, p, <<"/", "/", SP, PlusBuild>>)
    /\ s[LineEnd(s, p)] = LF

\* ends of the runs of 1, 2, ... consecutive build lines starting at p
RECURSIVE BuildRunEnds(_, _)
BuildRunEnds(s, p) ==
    IF IsBuildLine(s, p)
    THEN {LineEnd(s, p)} \cup BuildRunEnds(s, LineEnd(s, p) + 1)
    ELSE {}

\* BuildConstraintsRegex.FindStringIndex: (?m)^(\/\/(go:build| \+build).*\n)+$
\* the leftmost line start with a run that `$` accepts, and its longest such run
BuildConstraintsRegexEnd(s) ==
    LET ok(p) == {e \in BuildRunEnds(s, p) : AtEndOfLine(s, e + 1)}
        hits == {p \in LineStarts(s) : ok(p) # {}}
    IN  IF hits = {} THEN 0 ELSE Max(ok(Min(hits)))

\* skipHeaderGoFile, skipHeaderShebang, and no skipHeaderFunc
skipHeaderGoFile(raw) == BuildConstraintsRegexEnd(raw)
skipHeaderShebang(raw) == ShebangRegexEnd(raw)

SkipHeader(kind, raw) ==
    CASE kind = "go" -> skipHeaderGoFile(raw)
      [] kind = "shebang" -> skipHeaderShebang(raw)
      [] OTHER -> 0

-----------------------------------------------------------------------------
(* Boilerplate Locator *)

LocInit ==
    [inblock |-> "", isBoiler |-> FALSE, pos |-> 0, start |-> -1, year |-> "",
     done |-> FALSE, rstart |-> -1, rstop |-> -1, ryear |-> ""]

LocReturn(st, a, b, y) ==
    [st EXCEPT !.done = TRUE, !.rstart = a, !.rstop = b, !.ryear = y]

LocReset(st) ==
    [st EXCEPT !.inblock = "", !.start = -1, !.isBoiler = FALSE]

\* the copyright pattern applied to a line: isBoiler and year
LocMark(st0, yearmatch) ==
    IF Len(yearmatch) = 2
    THEN [st0 EXCEPT !.isBoiler = TRUE, !.year = yearmatch[2]]
    ELSE st0

\* pos += len(line)
LocNext(st, n) == [st EXCEPT !.pos = st.pos + n]

\* the switch on inblock, for the trimmed line l of a line of n tokens
LocSwitch(st, l, n) ==
    CASE st.inblock = "" ->
           IF HasPrefix(l, <<"/", "*">>)
           THEN IF HasSuffix(l, <<"*", "/">>)
                THEN IF st.isBoiler
                     THEN LocReturn(st, st.pos, st.pos + n, st.year)
                     ELSE LocNext(LocReset(st), n)
                ELSE LocNext([st EXCEPT !.inblock = "/*", !.start = st.pos], n)
           ELSE IF HasPrefix(l, <<"/", "/">>)
                THEN LocNext([st EXCEPT !.inblock = "//", !.start = st.pos], n)
           ELSE IF HasPrefix(l, <<"#">>)
                THEN LocNext([st EXCEPT !.inblock = "#", !.start = st.pos], n)
           ELSE LocNext(st, n)
      [] st.inblock \in {"//", "#"} ->
           IF ~HasPrefix(l, IF st.inblock = "#" THEN <<"#">> ELSE <<"/", "/">>)
           THEN IF st.start >= 0 /\ st.isBoiler
                THEN LocReturn([st EXCEPT !.inblock = ""], st.start, st.pos, st.year)
                ELSE LocNext(LocReset(st), n)
           ELSE LocNext(st, n)
      [] st.inblock = "/*" ->
           IF HasSuffix(l, <<"*", "/">>)
           THEN IF st.start >= 0 /\ st.isBoiler
                THEN LocReturn([st EXCEPT !.inblock = ""], st.start, st.pos + n, st.year)
                ELSE LocNext(LocReset(st), n)
           ELSE LocNext(st, n)

LocLine(st0, line, l) == LocSwitch(LocMark(st0, CopyrightRegexFind(l)), l, Len(line))

\* one iteration of the loop over strings.Lines(content)
LocStep(st0, line) == LocLine(st0, line, TrimSpace(line))

\* LocFinish without the "boilerplate reaches end of file" case
LocFinish_NoEof(st) ==
    IF st.done THEN st ELSE LocReturn(st, -1, -1, "")

\* LocFinish with the end-of-file case guarded by isBoiler alone
LocFinish_NoBlockGuard(st) ==
    IF st.done THEN st
    ELSE IF st.isBoiler
         THEN LocReturn(st, st.start, st.pos, st.year)
         ELSE LocReturn(st, -1, -1, "")

\* after the loop: "boilerplate reaches end of file", or not found
LocFinish(st) ==
    IF st.done THEN st
    ELSE IF st.inblock # "" /\ st.start >= 0 /\ st.isBoiler
         THEN LocReturn(st, st.start, st.pos, st.year)
         ELSE LocReturn(st, -1, -1, "")

\* a return inside the loop ends it
LocIter(prev, line) == IF prev.done THEN prev ELSE LocStep(prev, line)

\* the locator's state after the first k lines
RECURSIVE LocAfter(_, _)
LocAfter(lines, k) ==
    IF k = 0 THEN LocInit ELSE LocIter(LocAfter(lines, k - 1), lines[k])

LocResult(st) == [start |-> st.rstart, stop |-> st.rstop, year |-> st.ryear]

LocRun(lines) == LocResult(LocFinish(LocAfter(lines, Len(lines))))

findExistingBoilerplate(c) == LocRun(Lines(c))

-----------------------------------------------------------------------------
(* Template *)

\* the zero Template returned next to an error
NoTemplate == [ok |-> FALSE, text |-> <<>>, skip |-> "none"]

skipHeaderFuncFor(ext) ==
    CASE ext = "go" -> "go"
      [] ext \in {"sh", "bash", "py"} -> "shebang"
      [] OTHER -> "none"

\* NewTemplate checking for "<<YEAR>>" instead of "Copyright <<YEAR>>"
NewTemplate_YearOnly(c, ext, expectedAuthor) ==
    IF ~Contains(c, <<YearMarker>>) THEN NoTemplate
    ELSE IF ~Contains(c, <<AuthorMarker>>) THEN NoTemplate
    ELSE IF Contains(c, <<CR>>) THEN NoTemplate
    ELSE [ok |-> TRUE,
          text |-> TrimSpace(ReplaceAll(c, <<AuthorMarker>>, expectedAuthor)) \o <<LF>>,
          skip |-> skipHeaderFuncFor(ext)]

\* NewTemplate without strings.TrimSpace
NewTemplate_NoTrim(c, ext, expectedAuthor) ==
    IF ~Contains(c, CopyrightMarker) THEN NoTemplate
    ELSE IF ~Contains(c, <<AuthorMarker>>) THEN NoTemplate
    ELSE IF Contains(c, <<CR>>) THEN NoTemplate
    ELSE [ok |-> TRUE,
          text |-> ReplaceAll(c, <<AuthorMarker>>, expectedAuthor) \o <<LF>>,
          skip |-> skipHeaderFuncFor(ext)]

NewTemplate(c, ext, expectedAuthor) ==
    IF ~Contains(c, CopyrightMarker) THEN NoTemplate
    ELSE IF ~Contains(c, <<AuthorMarker>>) THEN NoTemplate
    ELSE IF Contains(c, <<CR>>) THEN NoTemplate
    ELSE [ok |-> TRUE,
          text |-> TrimSpace(ReplaceAll(c, <<AuthorMarker>>, expectedAuthor)) \o <<LF>>,
          skip |-> skipHeaderFuncFor(ext)]

\* BoilStart with the header-skip offset of the found span assigned to start
\* instead of added to it
BoilStart_SkipAssigned(t, c, loc) ==
    IF loc.start = -1
    THEN (IF t.skip # "none" THEN SkipHeader(t.skip, c) ELSE 0)
    ELSE IF t.skip # "none"
         THEN SkipHeader(t.skip, Slice(c, loc.start, loc.stop))
         ELSE loc.start

\* start: the header-skip offset of the whole file when nothing was found,
\* else the found start moved by the header-skip offset of the found span
BoilStart(t, c, loc) ==
    IF loc.start = -1
    THEN (IF t.skip # "none" THEN SkipHeader(t.skip, c) ELSE 0)
    ELSE IF t.skip # "none"
         THEN loc.start + SkipHeader(t.skip, Slice(c, loc.start, loc.stop))
         ELSE loc.start

BoilStop(loc, start) == IF loc.start = -1 THEN start ELSE loc.stop

\* FileParts with the year always taken from the clock
FileParts_ClockYear(c, loc, start, stop) ==
    [head |-> Slice(c, 0, start),
     boil |-> Slice(c, start, stop),
     foot |-> Slice(c, stop, Len(c)),
     year |-> now,
     found |-> loc.start # -1, start |-> start, stop |-> stop, loc |-> loc]

\* FileParts with the year of the clock kept in a variable that the first
\* validation sets and later validations reuse
FileParts_CachedYear(c, loc, start, stop) ==
    [head |-> Slice(c, 0, start),
     boil |-> Slice(c, start, stop),
     foot |-> Slice(c, stop, Len(c)),
     year |-> IF loc.year # "" THEN loc.year
              ELSE IF \E j \in DOMAIN calls : calls[j].pc # "ready"
                   THEN calls[CHOOSE j \in DOMAIN calls : calls[j].pc # "ready"].at
                   ELSE now,
     found |-> loc.start # -1, start |-> start, stop |-> stop, loc |-> loc]

\* found: the locator returned start # -1 (before the offsets are adjusted)
FileParts(c, loc, start, stop) ==
    [head |-> Slice(c, 0, start),
     boil |-> Slice(c, start, stop),
     foot |-> Slice(c, stop, Len(c)),
     year |-> IF loc.year = "" THEN now ELSE loc.year,
     found |-> loc.start # -1, start |-> start, stop |-> stop, loc |-> loc]

AnalyzeFrom(c, loc, start) == FileParts(c, loc, start, BoilStop(loc, start))

AnalyzeAt(t, c, loc) == AnalyzeFrom(c, loc, BoilStart(t, c, loc))

analyzeFile(t, c) == AnalyzeAt(t, c, findExistingBoilerplate(c))

NoResult ==
    [ok |-> TRUE, skipped |-> FALSE, reason |-> "", expect |-> <<>>,
     found |-> FALSE, start |-> 0, stop |-> 0, year |-> "",
     loc |-> [start |-> -1, stop |-> -1, year |-> ""],
     head |-> <<>>, boilExpect |-> <<>>, foot |-> <<>>]

\* the escape hatch: a skip marker or a generated-file marker
IsExempt(c) == SkipFileRegexMatch(c) \/ GeneratedRegexMatch(c)

\* nl: the newline type of the original
Newline(c) == IF Contains(c, <<CR, LF>>) THEN <<CR, LF>> ELSE <<LF>>

\* boilExpect without the CRLF conversion
BoilExpect_KeepLF(t, year, c) ==
    ReplaceAll(t.text, <<YearMarker>>, <<year>>)

\* boilExpect followed by an empty line
BoilExpect_BlankLine(t, year, c) ==
    ReplaceAll(ReplaceAll(t.text, <<YearMarker>>, <<year>>) \o <<LF>>, <<LF>>,
               IF Contains(c, <<CR, LF>>) THEN <<CR, LF>> ELSE <<LF>>)

\* boilExpect: the template with the year set, in the original's newline type
BoilExpect(t, year, c) ==
    LET b == ReplaceAll(t.text, <<YearMarker>>, <<year>>)
    IN  IF Contains(c, <<CR, LF>>) THEN ReplaceAll(b, <<LF>>, <<CR, LF>>) ELSE b

\* head: trimmed, and followed by one empty line when not empty
HeadExpect(head, nl) ==
    LET h == TrimSpace(head)
    IN  IF h # <<>> THEN h \o nl \o nl ELSE h

\* foot with its leading white space kept
FootExpect_NoTrim(foot, nl) ==
    IF foot # <<>> THEN nl \o foot ELSE foot

\* foot: one line break, then the foot without its leading white space
FootExpect(foot, nl) ==
    IF foot # <<>> THEN nl \o TrimLeftSpace(foot) ELSE foot

Reason(c, expect, boilOrig) ==
    IF c = expect THEN ""
    ELSE IF boilOrig = <<>> THEN "missing boilerplate"
    ELSE "incorrect boilerplate"

\* the outcome of validateContent: ok stands for the nil error; expect is the
\* content the patch produces; the other fields record the function's locals
Outcome(c, a, head, boilExpect, foot, expect) ==
    [ok |-> c = expect,
     skipped |-> FALSE,
     reason |-> Reason(c, expect, a.boil),
     expect |-> expect,
     found |-> a.found, start |-> a.start, stop |-> a.stop, year |-> a.year,
     loc |-> a.loc,
     head |-> head, boilExpect |-> boilExpect, foot |-> foot]

Assemble(c, a, head, boilExpect, foot) ==
    Outcome(c, a, head, boilExpect, foot, head \o boilExpect \o foot)

ExpectFor(t, c, a, nl) ==
    Assemble(c, a, HeadExpect(a.head, nl), BoilExpect(t, a.year, c), FootExpect(a.foot, nl))

validateContent(t, c) ==
    IF IsExempt(c)
    THEN [NoResult EXCEPT !.skipped = TRUE]
    ELSE ExpectFor(t, c, analyzeFile(t, c), Newline(c))

-----------------------------------------------------------------------------
(* TemplateMap: the template for a path *)

SEP == "/"
DOT == "."

\* index of the last separator of p, 0 without one
LastSep(p) == Max({0} \cup {i \in 1..Len(p) : p[i] = SEP})

\* filepath.Ext: the suffix from the last dot of the last element, "" without one
ExtFrom(p, dots) == IF dots = {} THEN <<>> ELSE SubSeq(p, Max(dots), Len(p))
Ext(p) == ExtFrom(p, {i \in (LastSep(p) + 1)..Len(p) : p[i] = DOT})

TrimPrefix(s, prefix) ==
    IF HasPrefix(s, prefix) THEN SubSeq(s, Len(prefix) + 1, Len(s)) ELSE s

\* filepath.Base: the last element, trailing separators removed; "." for the
\* empty path and "/" for a path of separators only
BaseTo(p, e) == SubSeq(p, LastSep(SubSeq(p, 1, e)) + 1, e)
BaseOf(p, keep) == IF keep = {} THEN <<SEP>> ELSE BaseTo(p, Max(keep))
Base(p) == IF p = <<>> THEN <<DOT>> ELSE BaseOf(p, {i \in 1..Len(p) : p[i] # SEP})

\* strings.SplitN(s, ".", 2)[0]
UpTo(s, dots) == IF dots = {} THEN s ELSE SubSeq(s, 1, Min(dots) - 1)
BeforeFirstDot(s) == UpTo(s, {i \in 1..Len(s) : s[i] = DOT})

NoMatch == [tmpl |-> NoTemplate, ok |-> FALSE]

Lookup(tm, ext, name) ==
    IF ext \in DOMAIN tm THEN [tmpl |-> tm[ext], ok |-> TRUE]
    ELSE IF name \in DOMAIN tm THEN [tmpl |-> tm[name], ok |-> TRUE]
    ELSE NoMatch

\* TemplateFor looking at the prefix before the suffix
TemplateFor_PrefixFirst(tm, path) ==
    Lookup(tm, BeforeFirstDot(Base(path)), TrimPrefix(Ext(path), <<DOT>>))

\* TemplateMap.TemplateFor: tm maps a key (a name) to its template
TemplateFor(tm, path) ==
    Lookup(tm, TrimPrefix(Ext(path), <<DOT>>), BeforeFirstDot(Base(path)))

-----------------------------------------------------------------------------
(* Inputs: template sources, categories, authors and file contents *)

MaxLines == 3

Authors == {<<"U">>, <<TXT, SP, "U">>, <<>>}

HashTmpl == <<"#", CopyrightWord, SP, YearMarker, SP, AuthorMarker>>
SlashTmpl == <<SP, LF, "/", "/", SP, CopyrightWord, SP, YearMarker, SP, AuthorMarker, LF, LF>>
StarTmpl == <<"/", "*", CopyrightWord, SP, YearMarker, SP, AuthorMarker, "*", "/">>
TwoLineTmpl == <<"#", TXT, LF, "#", SP, CopyrightWord, SP, YearMarker, SP, AuthorMarker, SP, AuthorMarker>>
PlainTmpl == <<CopyrightWord, SP, YearMarker, SP, AuthorMarker>>
TwoBlockTmpl == <<"#", CopyrightWord, SP, YearMarker, SP, AuthorMarker, LF, LF, "#", TXT>>
ShebangTmpl == <<"#", "!", TXT, LF, "#", CopyrightWord, SP, YearMarker, SP, AuthorMarker>>
TwoCopyrightTmpl == <<"#", CopyrightWord, SP, YearMarker, SP, AuthorMarker, LF, "#", CopyrightWord, SP, TXT>>

GoodTemplates ==
    {HashTmpl, SlashTmpl, StarTmpl, TwoLineTmpl, PlainTmpl, TwoBlockTmpl, ShebangTmpl,
     TwoCopyrightTmpl}

\* rejected sources: no "Copyright <<YEAR>>", no "<<AUTHOR>>", a CR
BadTemplates ==
    {<<"#", SP, YearMarker, SP, AuthorMarker>>,
     <<"#", SP, CopyrightWord, SP, TXT, SP, AuthorMarker>>,
     <<"#", SP, CopyrightWord, YearMarker, SP, AuthorMarker>>,
     <<"#", SP, CopyrightWord, SP, YearMarker, SP, TXT>>,
     <<"#", TXT, CR, LF, "#", CopyrightWord, SP, YearMarker, SP, AuthorMarker, CR, LF>>,
     <<"#", CopyrightWord, SP, YearMarker, SP, AuthorMarker, CR>>,
     <<>>}

Exts == {"go", "sh", "bash", "py", "c", "Dockerfile"}

\* line bodies (no line break) of files in a category whose comments start with lead
Header(lead, y) == lead \o <<CopyrightWord, SP, y, SP, "U">>

CommonShapes ==
    {<<>>, <<TXT>>, <<SP, TXT>>, <<CopyrightWord, SP, "2000">>}

HashShapes ==
    CommonShapes \cup
    {<<"#", TXT>>, <<"#", "!", TXT>>, Header(<<"#">>, "2000"),
     <<"#", CopyrightWord, SP, TXT>>, <<"#", SP, SkipWord>>,
     <<"#", "!", CopyrightWord, SP, "2000">>}

SlashShapes ==
    CommonShapes \cup
    {<<"/", "/", TXT>>, <<"/", "/", GoBuild>>, <<"/", "/", SP, PlusBuild>>,
     Header(<<"/", "/", SP>>, "2000"), <<"/", "/", SP, SkipWord>>,
     <<"/", "/", TXT, DoNotEdit>>}

StarShapes ==
    CommonShapes \cup
    {<<"/", "*", TXT, "*", "/">>, <<"/", "*">>, <<"*", "/">>,
     <<"/", "*", CopyrightWord, SP, "2000", SP, "U", "*", "/">>,
     <<"/", "/", TXT>>, <<"*", TXT, DoNotEdit>>, <<"*", "/", TXT>>}

PlainShapes == {<<>>, <<TXT>>, <<"#", TXT>>}

Shapes(family) ==
    CASE family = "#" -> HashShapes
      [] family = "//" -> SlashShapes
      [] family = "/*" -> StarShapes
      [] OTHER -> PlainShapes

\* how the lines of a file end: all LF, all CRLF, or LF with one CRLF line
\* (the first or the last); final: the last line has a line break
EolModes ==
    {<<"lf", TRUE>>, <<"lf", FALSE>>, <<"crlf", TRUE>>,
     <<"first-crlf", TRUE>>, <<"last-crlf", TRUE>>}

Eol(mode, k, n) ==
    IF \/ mode = "crlf"
       \/ mode = "first-crlf" /\ k = 1
       \/ mode = "last-crlf" /\ k = n
    THEN <<CR, LF>> ELSE <<LF>>

RECURSIVE Join(_, _, _, _)
Join(bodies, mode, final, k) ==
    IF k > Len(bodies) THEN <<>>
    ELSE bodies[k]
         \o (IF k = Len(bodies) /\ ~final THEN <<>> ELSE Eol(mode, k, Len(bodies)))
         \o Join(bodies, mode, final, k + 1)

\* files of up to MaxLines lines
Contents(family) ==
    {Join(b, m[1], m[2], 1) :
        b \in UNION {[1..n -> Shapes(family)] : n \in 0..MaxLines},
        m \in EolModes}

ValidationInputs ==
    {[content |-> HashTmpl, ext |-> "sh", author |-> <<"U">>, family |-> "#"],
     [content |-> SlashTmpl, ext |-> "go", author |-> <<"U">>, family |-> "//"],
     [content |-> StarTmpl, ext |-> "c", author |-> <<"U">>, family |-> "/*"],
     [content |-> TwoLineTmpl, ext |-> "Dockerfile", author |-> <<TXT, SP, "U">>, family |-> "plain"],
     [content |-> PlainTmpl, ext |-> "c", author |-> <<"U">>, family |-> "plain"],
     [content |-> TwoBlockTmpl, ext |-> "py", author |-> <<"U">>, family |-> "plain"],
     [content |-> ShebangTmpl, ext |-> "bash", author |-> <<"U">>, family |-> "plain"],
     [content |-> TwoCopyrightTmpl, ext |-> "sh", author |-> <<"U">>, family |-> "plain"]}

\* the file that is exactly the template's text with the year set
Canonical(t, y) == ReplaceAll(t.text, <<YearMarker>>, <<y>>)

-----------------------------------------------------------------------------
(* The program: load a template, validate a file, apply the patch and validate again *)

\* the parts of the state a specification does not use
NoLookup == [path |-> <<>>, tm |-> <<>>, sel |-> NoMatch, pc |-> "idle"]

NoRun ==
    [base |-> 0, tree |-> {}, targets |-> <<>>, validated |-> <<>>,
     validationErrors |-> <<>>, output |-> <<>>, exit |-> -1, pc |-> "idle"]

NoCalls == <<>>

Init ==
    /\ phase = "new"
    /\ tmplIn \in ValidationInputs
    /\ tmpl = NoTemplate
    /\ content = <<>>
    /\ res = NoResult
    /\ now = ThisYear
    /\ lookup = NoLookup
    /\ run = NoRun
    /\ calls = NoCalls

\* LoadTemplates: NewTemplate on the embedded source
LoadTemplate ==
    /\ phase = "new"
    /\ tmpl' = NewTemplate(tmplIn.content, tmplIn.ext, tmplIn.author)
    /\ phase' = IF tmpl'.ok THEN "loaded" ELSE "failed"
    /\ UNCHANGED <<tmplIn, content, res, now, lookup, run, calls>>

\* Template.Validate on one file
Validate ==
    /\ phase = "loaded"
    /\ \E c \in Contents(tmplIn.family) \cup {Canonical(tmpl, y) : y \in Years \cup {OldYear}} :
          /\ content' = c
          /\ res' = validateContent(tmpl, c)
    /\ phase' = "validated"
    /\ UNCHANGED <<tmplIn, tmpl, now, lookup, run, calls>>

\* the patch of a failed validation applied to the file, and the file validated again
Revalidate ==
    /\ phase = "validated"
    /\ ~res.ok
    /\ content' = res.expect
    /\ res' = validateContent(tmpl, res.expect)
    /\ phase' = "revalidated"
    /\ UNCHANGED <<tmplIn, tmpl, now, lookup, run, calls>>

Next == LoadTemplate \/ Validate \/ Revalidate

Spec == Init /\ [][Next]_vars

\* template loading alone, over every source, category and author
TemplateInputs ==
    [content : GoodTemplates \cup BadTemplates, ext : Exts, author : Authors,
     family : {"plain"}]

InitTmpl ==
    /\ phase = "new"
    /\ tmplIn \in TemplateInputs
    /\ tmpl = NoTemplate
    /\ content = <<>>
    /\ res = NoResult
    /\ now = ThisYear
    /\ lookup = NoLookup
    /\ run = NoRun
    /\ calls = NoCalls

NextTmpl == LoadTemplate

SpecTmpl == InitTmpl /\ [][NextTmpl]_vars

-----------------------------------------------------------------------------
(* Template lookup alone: TemplateFor over paths and template maps *)

MaxPathLen == 4

PathTokens == {SEP, DOT, "go", "Dockerfile", "main"}

LookupPaths == UNION {[1..n -> PathTokens] : n \in 0..MaxPathLen}

\* a map with the given keys, each template carrying its key as text
FakeMap(keys) == [k \in keys |-> [ok |-> TRUE, text |-> k, skip |-> "none"]]

TemplateMaps == {FakeMap(K) : K \in SUBSET {<<"go">>, <<"Dockerfile">>, <<"bash">>}}

InitPath ==
    /\ phase = "lookup"
    /\ tmplIn \in {[content |-> <<>>, ext |-> "", author |-> <<>>, family |-> "plain"]}
    /\ tmpl = NoTemplate
    /\ content = <<>>
    /\ res = NoResult
    /\ now = ThisYear
    /\ \E path \in LookupPaths \cup {<<"foo", DOT, "bash">>, <<"go", DOT, "other">>,
                                      <<"Dockerfile", DOT, "linux">>, <<"main", DOT, "cpp">>},
          tm \in TemplateMaps :
          lookup = [path |-> path, tm |-> tm, sel |-> NoMatch, pc |-> "new"]
    /\ run = NoRun
    /\ calls = NoCalls

Resolve ==
    /\ lookup.pc = "new"
    /\ lookup' = [lookup EXCEPT !.sel = TemplateFor(lookup.tm, lookup.path), !.pc = "done"]
    /\ UNCHANGED <<phase, tmplIn, tmpl, content, res, now, run, calls>>

NextPath == Resolve

SpecPath == InitPath /\ [][NextPath]_vars

-----------------------------------------------------------------------------
(* main: list the targets, validate each, report *)

MaxFiles == 4

RunAuthor == <<"U">>

\* LoadTemplates: one template per key of the template directory
LoadTemplates ==
    [k \in {<<"go">>, <<"sh">>, <<"Dockerfile">>} |->
        NewTemplate(IF k = <<"go">> THEN SlashTmpl ELSE HashTmpl, k[1], RunAuthor)]

\* the directory given to validate, and the files it may hold in the order
\* WalkDir visits them: dir is the sub-directory of a file, ignored the
\* verdict of the ignore-file matcher, readable whether os.ReadFile succeeds
Root == <<"fixtures">>

File(dir, name, ignored, readable, c) ==
    [dir |-> dir, name |-> name, ignored |-> ignored, readable |-> readable, content |-> c]

Catalogue ==
    <<File(<<>>, <<"Dockerfile">>, FALSE, TRUE, <<>>),
      File(<<>>, <<"bad", DOT, "go">>, FALSE, TRUE, <<TXT, LF>>),
      File(<<>>, <<"go", DOT, "mod">>, FALSE, TRUE, <<TXT, LF>>),
      File(<<>>, <<"go", DOT, "work", DOT, "sum">>, FALSE, TRUE, <<TXT, LF>>),
      File(<<>>, <<"ignored", DOT, "sh">>, TRUE, TRUE, <<>>),
      File(<<>>, <<"main", DOT, "cpp">>, FALSE, TRUE, <<TXT, LF>>),
      File(<<>>, <<"main", DOT, "go">>, FALSE, TRUE,
           <<"/", "/", SP, CopyrightWord, SP, "2000", SP, "U", LF>>),
      File(<<>>, <<"noread", DOT, "sh">>, FALSE, FALSE, <<>>),
      File(<<>>, <<"ok", DOT, "sh">>, FALSE, TRUE,
           <<"#", CopyrightWord, SP, "2000", SP, "U", LF>>),
      File(<<"vendor">>, <<"x", DOT, "go">>, FALSE, TRUE, <<TXT, LF>>),
      File(<<>>, <<"zz_generated", DOT, "deepcopy", DOT, "go">>, FALSE, TRUE, <<TXT, LF>>)>>

PathOf(f) ==
    Root \o <<SEP>> \o (IF f.dir = <<>> THEN <<>> ELSE f.dir \o <<SEP>>) \o f.name

FileAt(path) == Catalogue[CHOOSE k \in DOMAIN Catalogue : PathOf(Catalogue[k]) = path]

skippedDirs ==
    {<<DOT, "git">>, <<"_bin">>, <<"bin">>, <<"node_modules">>, <<"vendor">>,
     <<"third_party">>, <<"staging">>}

isSkippedDir(path, allSkips) == Base(path) \in allSkips

SkippedName(filename) ==
    \/ filename \in {<<"go", DOT, "mod">>, <<"go", DOT, "sum">>, <<"go", DOT, "work">>,
                      <<"go", DOT, "work", DOT, "sum">>}
    \/ HasPrefix(filename, <<"zz_generated">>)

isSkippedFile(path) == SkippedName(Base(path))

\* the WalkDir callback on a file: TRUE when the file is appended to targets
Walked(f) ==
    /\ ~f.ignored
    /\ f.dir = <<>> \/ ~isSkippedDir(Root \o <<SEP>> \o f.dir, skippedDirs)
    /\ ~isSkippedFile(PathOf(f))
    /\ TemplateFor(LoadTemplates, PathOf(f)).ok

\* the members of a set of numbers in ascending order
InOrder(S) ==
    [i \in 1..Cardinality(S) |-> CHOOSE k \in S : Cardinality({j \in S : j <= k}) = i]

PathsOf(ks) == [i \in DOMAIN ks |-> PathOf(Catalogue[ks[i]])]

\* getTargets: base 0 is the directory Root holding the files of tree, base k
\* is the regular file Catalogue[k] given as the path to validate
getTargets(base, tree) ==
    IF base # 0
    THEN IF TemplateFor(LoadTemplates, PathOf(Catalogue[base])).ok
         THEN <<PathOf(Catalogue[base])>>
         ELSE <<>>
    ELSE PathsOf(SelectSeq(InOrder(tree), LAMBDA k : Walked(Catalogue[k])))

\* the error of Template.Validate: ok stands for nil
ErrorOf(r) == [ok |-> r.ok, reason |-> r.reason]

TemplateValidate(t, f) ==
    IF ~f.readable THEN [ok |-> FALSE, reason |-> "failed to read"]
    ELSE ErrorOf(validateContent(t, f.content))

AtLeastOne == [path |-> <<>>, reason |-> "at least one file had errors"]

Listed(r, t) ==
    [r EXCEPT !.targets = t,
              !.pc = IF t = <<>> THEN "exited" ELSE "validating",
              !.exit = IF t = <<>> THEN 0 ELSE -1]

Recorded(r, path, err) ==
    [r EXCEPT !.validated = Append(@, path),
              !.validationErrors =
                  IF err.ok THEN @ ELSE Append(@, [path |-> path, reason |-> err.reason])]

Reported(r) ==
    IF r.validationErrors = <<>>
    THEN [r EXCEPT !.pc = "exited", !.exit = 0]
    ELSE [r EXCEPT !.pc = "exited", !.exit = 1,
                   !.output = r.validationErrors \o <<AtLeastOne>>]

ValidateWith(r, path, m) ==
    IF ~m.ok THEN [r EXCEPT !.pc = "panicked", !.exit = 2]
    ELSE Recorded(r, path, TemplateValidate(m.tmpl, FileAt(path)))

ValidatePath(r, path) == ValidateWith(r, path, TemplateFor(LoadTemplates, path))

InitRun ==
    /\ phase = "run"
    /\ tmplIn \in {[content |-> <<>>, ext |-> "", author |-> RunAuthor, family |-> "plain"]}
    /\ tmpl = NoTemplate
    /\ content = <<>>
    /\ res = NoResult
    /\ now = ThisYear
    /\ lookup = NoLookup
    /\ \E base \in 0..Len(Catalogue), tree \in SUBSET DOMAIN Catalogue :
          /\ IF base = 0 THEN Cardinality(tree) <= MaxFiles ELSE tree = {base}
          /\ run = [NoRun EXCEPT !.base = base, !.tree = tree, !.pc = "start"]
    /\ calls = NoCalls

GetTargets ==
    /\ run.pc = "start"
    /\ run' = Listed(run, getTargets(run.base, run.tree))
    /\ UNCHANGED <<phase, tmplIn, tmpl, content, res, now, lookup, calls>>

\* the loop body with a failure ending the loop and the run
ValidateTarget_StopAtFailure ==
    /\ run.pc = "validating"
    /\ Len(run.validated) < Len(run.targets)
    /\ run' = IF ValidatePath(run, run.targets[Len(run.validated) + 1]).validationErrors
                  # run.validationErrors
              THEN Reported(ValidatePath(run, run.targets[Len(run.validated) + 1]))
              ELSE ValidatePath(run, run.targets[Len(run.validated) + 1])
    /\ UNCHANGED <<phase, tmplIn, tmpl, content, res, now, lookup, calls>>

\* one iteration of the loop over targets
ValidateTarget ==
    /\ run.pc = "validating"
    /\ Len(run.validated) < Len(run.targets)
    /\ run' = ValidatePath(run, run.targets[Len(run.validated) + 1])
    /\ UNCHANGED <<phase, tmplIn, tmpl, content, res, now, lookup, calls>>

\* after the loop: print the failures and exit
Report ==
    /\ run.pc = "validating"
    /\ Len(run.validated) = Len(run.targets)
    /\ run' = Reported(run)
    /\ UNCHANGED <<phase, tmplIn, tmpl, content, res, now, lookup, calls>>

NextRun == GetTargets \/ ValidateTarget \/ Report

SpecRun == InitRun /\ [][NextRun]_vars /\ WF_vars(NextRun)

-----------------------------------------------------------------------------
(* Two validations with one template, their steps interleaved, and the clock *)

NoAnalysis ==
    [head |-> <<>>, boil |-> <<>>, foot |-> <<>>, year |-> "", found |-> FALSE,
     start |-> 0, stop |-> 0, loc |-> [start |-> -1, stop |-> -1, year |-> ""]]

PairInputs ==
    {i \in ValidationInputs : i.content \in {HashTmpl, SlashTmpl}}

PairContents(t) ==
    {<<>>, <<TXT, LF>>, Canonical(t, "2000"), <<"#", CopyrightWord, SP, TXT, LF, TXT, LF>>,
     <<"#", SP, SkipWord, LF>>}

InitPair ==
    /\ phase = "calls"
    /\ tmplIn \in PairInputs
    /\ tmpl = NewTemplate(tmplIn.content, tmplIn.ext, tmplIn.author)
    /\ content = <<>>
    /\ res = NoResult
    /\ now = ThisYear
    /\ lookup = NoLookup
    /\ run = NoRun
    /\ \E c1, c2 \in PairContents(tmpl) :
          calls = [i \in 1..2 |->
                     [c |-> IF i = 1 THEN c1 ELSE c2, pc |-> "ready", at |-> "",
                      a |-> NoAnalysis, res |-> NoResult]]

\* validateContent up to the return of analyzeFile, which reads the clock
Begin(i) ==
    /\ calls[i].pc = "ready"
    /\ calls' = [calls EXCEPT ![i] =
                   IF IsExempt(calls[i].c)
                   THEN [@ EXCEPT !.pc = "done", !.at = now,
                                  !.res = [NoResult EXCEPT !.skipped = TRUE]]
                   ELSE [@ EXCEPT !.pc = "analyzed", !.at = now,
                                  !.a = analyzeFile(tmpl, calls[i].c)]]
    /\ UNCHANGED <<phase, tmplIn, tmpl, content, res, now, lookup, run>>

\* the rest of validateContent
Finish(i) ==
    /\ calls[i].pc = "analyzed"
    /\ calls' = [calls EXCEPT ![i] =
                   [@ EXCEPT !.pc = "done",
                             !.res = ExpectFor(tmpl, calls[i].c, calls[i].a,
                                               Newline(calls[i].c))]]
    /\ UNCHANGED <<phase, tmplIn, tmpl, content, res, now, lookup, run>>

\* a new calendar year begins
Tick ==
    /\ now = ThisYear
    /\ now' = NextYear
    /\ UNCHANGED <<phase, tmplIn, tmpl, content, res, lookup, run, calls>>

NextPair == Tick \/ \E i \in 1..2 : Begin(i) \/ Finish(i)

SpecPair == InitPair /\ [][NextPair]_vars

-----------------------------------------------------------------------------
(* Properties *)

TrimmedLines(s) == [k \in DOMAIN Lines(s) |-> TrimSpace(Lines(s)[k])]

\* s is one comment block: every line starts with "#", or every line starts
\* with "//", or it is a /* block whose only line ending in */ is the last
IsCommentBlock(s) ==
    LET ls == TrimmedLines(s)
        n == Len(ls)
    IN  /\ n >= 1
        /\ \/ \A k \in 1..n : HasPrefix(ls[k], <<"#">>)
           \/ \A k \in 1..n : HasPrefix(ls[k], <<"/", "/">>)
           \/ /\ HasPrefix(ls[1], <<"/", "*">>)
              /\ \A k \in 1..n : HasSuffix(ls[k], <<"*", "/">>) <=> k = n

\* "Copyright" stands in s only at the head of a "Copyright <<YEAR>>" marker
CopyrightOnlyInMarker(s) ==
    \A i \in 1..Len(s) : s[i] = CopyrightWord => MatchAt(s, i, CopyrightMarker)

\* a template the repository's templates are instances of: one comment block,
\* its only copyright lines the ones with the year placeholder, and no line
\* that the category's header-skip function would take for an exempt prefix
WellFormedTemplate(t) ==
    /\ t.ok
    /\ IsCommentBlock(t.text)
    /\ CopyrightOnlyInMarker(t.text)
    /\ SkipHeader(t.skip, t.text) = 0

\* C1 (as amended): for a template that is one comment block, names
\* "Copyright" only in its year marker and has no line its header-skip function
\* matches, and a year Y of the form 20dd, the file that is exactly the
\* template's text with the year placeholder set to Y validates successfully.
C1_CanonicalValidates ==
    (/\ phase = "validated"
     /\ WellFormedTemplate(tmpl)
     /\ \E y \in Years : content = Canonical(tmpl, y))
    => res.ok

C1_Witness ==
    /\ phase = "validated"
    /\ WellFormedTemplate(tmpl)
    /\ content = Canonical(tmpl, "2000")
    /\ res.ok /\ ~res.skipped /\ res.found /\ res.year = "2000"

\* C1 (as claimed): for every template NewTemplate builds and every year Y the
\* file that is exactly the template's text with the year set to Y validates.
C1_AnyTemplateValidates ==
    (/\ phase = "validated"
     /\ tmpl.ok
     /\ \E y \in Years \cup {OldYear} : content = Canonical(tmpl, y))
    => res.ok

Validated == phase \in {"validated", "revalidated"}

\* C2: when validation of a file fails, the expected content it builds (the
\* patched file) validates successfully with the same template.  Stated for
\* the templates that are one comment block, which the claim covers.
C2_PatchedFileValidates ==
    (phase = "revalidated" /\ WellFormedTemplate(tmpl)) => res.ok

\* a line with text that is neither blank nor part of a comment
IsTextLine(line) ==
    LET l == TrimSpace(line)
    IN  l # <<>> /\ l[1] \notin {"#", "/", "*"}

HeadLines(c, start) == Lines(Slice(c, 0, start))

\* C3: when validation succeeds for content without skip or generated marker,
\* nothing but comment lines (interpreter line, build constraints, comments)
\* and blank lines precedes the boilerplate: no line of text does.
C3_NoTextBeforeBoilerplate ==
    (Validated /\ res.ok /\ ~res.skipped)
    => \A k \in DOMAIN HeadLines(content, res.start) :
          ~IsTextLine(HeadLines(content, res.start)[k])

\* the body of the line starting at p: without its LF, and without the CR of a CRLF
LineBody(c, p) ==
    LET e == LineEnd(c, p)
        e1 == IF c[e] = LF THEN e - 1 ELSE e
        e2 == IF e1 >= p /\ c[e1] = CR /\ e1 < e THEN e1 - 1 ELSE e1
    IN  SubSeq(c, p, e2)

\* c has a line that is the skip marker, or a comment line ending in DO NOT EDIT.
HasMarkerLine(c) ==
    \E p \in LineStarts(c) :
        LET b == LineBody(c, p)
        IN  \/ b \in {<<"/", "/", SP, SkipWord>>, <<"#", SP, SkipWord>>}
            \/ Len(b) >= 2 /\ b[1] \in {"/", "*", "#"} /\ b[Len(b)] = DoNotEdit

\* C4: content (LF or CRLF) with a skip-marker line or a comment line ending
\* in DO NOT EDIT. validates successfully with no other check made.
C4_MarkerLineExempts ==
    (phase = "validated" /\ HasMarkerLine(content))
    => (res.ok /\ res.skipped)

\* C5: a failed validation gives "missing boilerplate" exactly when the
\* locator found no block, and "incorrect boilerplate" exactly when it found one.
C5_ReasonFollowsLocator ==
    (Validated /\ ~res.ok)
    => /\ res.reason = "missing boilerplate" <=> ~res.found
       /\ res.reason = "incorrect boilerplate" <=> res.found

\* every line break of s is CRLF / no line break of s is CRLF
AllCRLF(s) == \A i \in 1..Len(s) : s[i] = LF => (i > 1 /\ s[i - 1] = CR)
NoCRLF(s) == ~Contains(s, <<CR, LF>>)

\* C6 (as claimed): content with a CRLF gives expected content whose every
\* line break is CRLF; content with none, expected content with LF throughout.
C6_OneNewlineTypeThroughout ==
    (phase = "validated" /\ ~res.skipped)
    => IF Contains(content, <<CR, LF>>) THEN AllCRLF(res.expect)
       ELSE NoCRLF(res.expect)

\* what validateContent itself puts into the expected content: the boilerplate,
\* the empty line after a non-empty head, the line break before a non-empty foot
InsertedText(r) ==
    LET nh == Len(r.head)
        sepFrom == IF nh = 0 THEN 1
                   ELSE Max({i \in 1..nh : ~IsSpace(r.head[i])}) + 1
        sepTo == nh + Len(r.boilExpect)
                 + (IF r.foot = <<>> THEN 0 ELSE Len(r.foot) - Len(TrimLeftSpace(r.foot)))
    IN  SubSeq(r.expect, sepFrom, sepTo)

\* C6 (as amended): when the content contains a CRLF, every line break that
\* validateContent inserts (in the boilerplate and the separators around it)
\* is CRLF, and if all line breaks of the content are CRLF so are all of the
\* expected content; when the content contains no CRLF, neither does the
\* expected content.  Line breaks inside head and foot are carried over.
C6_InsertedNewlinesFollowContent ==
    (phase = "validated" /\ ~res.skipped)
    => IF Contains(content, <<CR, LF>>)
       THEN /\ AllCRLF(InsertedText(res))
            /\ AllCRLF(content) => AllCRLF(res.expect)
       ELSE NoCRLF(res.expect)

C6_Witness ==
    /\ phase = "validated" /\ ~res.skipped /\ ~res.ok
    /\ Contains(content, <<CR, LF>>) /\ ~AllCRLF(content)
    /\ res.head # <<>> /\ res.foot # <<>>
    /\ AllCRLF(InsertedText(res)) /\ ~AllCRLF(res.expect)

\* C7: a span the locator reports holds a line matching the copyright pattern,
\* and the year it reports is the one captured on such a line of the span.
C7_SpanHoldsCopyrightLine ==
    (Validated /\ res.found)
    => LET ls == Lines(Slice(content, res.loc.start, res.loc.stop))
       IN  \E k \in DOMAIN ls :
              LET m == CopyrightRegexFind(TrimSpace(ls[k]))
              IN  Len(m) = 2 /\ m[2] = res.loc.year

\* a line that, trimmed, starts with "/*", "//" or "#"
IsCommentLine(line) ==
    LET l == TrimSpace(line)
    IN  HasPrefix(l, <<"/", "*">>) \/ HasPrefix(l, <<"/", "/">>) \/ HasPrefix(l, <<"#">>)

NoCommentLine(c) == \A k \in DOMAIN Lines(c) : ~IsCommentLine(Lines(c)[k])

\* C8: for content without any comment line the locator returns the not-found
\* sentinel (-1, -1, "").
C8_NoCommentNotFound ==
    (Validated /\ NoCommentLine(content))
    => findExistingBoilerplate(content) = [start |-> -1, stop |-> -1, year |-> ""]

C8_Witness ==
    /\ phase = "validated"
    /\ NoCommentLine(content)
    /\ \E k \in DOMAIN Lines(content) :
          CopyrightRegexFind(TrimSpace(Lines(content)[k])) # <<>>
    /\ Len(Lines(content)) >= 2
    /\ ~res.found /\ res.reason = "missing boilerplate"

\* C9: NewTemplate fails, and returns the zero Template, when the source lacks
\* "Copyright <<YEAR>>" (even if it has "<<YEAR>>"), lacks "<<AUTHOR>>", or
\* has a Windows-style line terminator.
C9_BadSourceRejected ==
    (/\ phase # "new"
     /\ \/ ~Contains(tmplIn.content, CopyrightMarker)
        \/ ~Contains(tmplIn.content, <<AuthorMarker>>)
        \/ Contains(tmplIn.content, <<CR, LF>>))
    => (phase = "failed" /\ tmpl = NoTemplate)

C9_Witness ==
    /\ phase = "failed"
    /\ tmpl = NoTemplate
    /\ Contains(tmplIn.content, <<YearMarker>>)
    /\ Contains(tmplIn.content, <<AuthorMarker>>)
    /\ ~Contains(tmplIn.content, <<CR>>)
    /\ ~Contains(tmplIn.content, CopyrightMarker)

\* C10: the text of a loaded template holds no "<<AUTHOR>>" (each is replaced
\* by the author), does not start with white space, and ends with one line
\* break that no white space precedes.
C10_TextReplacedAndTrimmed ==
    phase = "loaded"
    => /\ ~Contains(tmpl.text, <<AuthorMarker>>)
       /\ Len(tmpl.text) >= 2
       /\ ~IsSpace(tmpl.text[1])
       /\ tmpl.text[Len(tmpl.text)] = LF
       /\ ~IsSpace(tmpl.text[Len(tmpl.text) - 1])
       /\ tmplIn.author # <<>> => Contains(tmpl.text, tmplIn.author)

C10_Witness ==
    /\ phase = "loaded"
    /\ IsSpace(tmplIn.content[1])
    /\ IsSpace(tmplIn.content[Len(tmplIn.content)])
    /\ tmplIn.author # <<>>
    /\ Contains(tmpl.text, tmplIn.author)
    /\ tmpl.text[Len(tmpl.text)] = LF

\* the file name of a path: what follows its last separator
FileName(p) == SubSeq(p, LastSep(p) + 1, Len(p))

\* the suffix after the last dot of a name (no key when the name has no dot),
\* and the part of a name before its first dot
SuffixKey(name) ==
    LET dots == {i \in 1..Len(name) : name[i] = DOT}
    IN  IF dots = {} THEN <<>> ELSE SubSeq(name, Max(dots) + 1, Len(name))

PrefixKey(name) ==
    LET dots == {i \in 1..Len(name) : name[i] = DOT}
    IN  IF dots = {} THEN name ELSE SubSeq(name, 1, Min(dots) - 1)

TheGoMap == FakeMap({<<"go">>, <<"Dockerfile">>, <<"bash">>})

\* C11: for a path that names a file, TemplateFor gives the template keyed by
\* the suffix after the last dot of the file name if there is one, else the
\* template keyed by the part of the file name before its first dot, else no
\* match; with templates go, Dockerfile and bash the listed names resolve as
\* listed, and a name matching both ways gets the suffix template.
C11_SuffixThenPrefix ==
    (lookup.pc = "done" /\ lookup.path # <<>> /\ lookup.path[Len(lookup.path)] # SEP)
    => LET name == FileName(lookup.path)
           tm == lookup.tm
       IN  /\ lookup.sel =
                 IF SuffixKey(name) \in DOMAIN tm
                 THEN [tmpl |-> tm[SuffixKey(name)], ok |-> TRUE]
                 ELSE IF PrefixKey(name) \in DOMAIN tm
                      THEN [tmpl |-> tm[PrefixKey(name)], ok |-> TRUE]
                      ELSE NoMatch
           /\ tm = TheGoMap =>
                 /\ lookup.path \in {<<"main", DOT, "go">>, <<"go">>, <<"go", DOT, "other">>}
                       => lookup.sel.tmpl.text = <<"go">>
                 /\ lookup.path \in {<<"Dockerfile">>, <<"Dockerfile", DOT, "linux">>}
                       => lookup.sel.tmpl.text = <<"Dockerfile">>
                 /\ lookup.path = <<"foo", DOT, "bash">> => lookup.sel.tmpl.text = <<"bash">>
                 /\ lookup.path = <<"main", DOT, "cpp">> => ~lookup.sel.ok

C11_Witness ==
    /\ lookup.pc = "done"
    /\ lookup.tm = TheGoMap
    /\ lookup.path = <<SEP, "Dockerfile", DOT, "go">>
    /\ lookup.sel.ok /\ lookup.sel.tmpl.text = <<"go">>

\* Template.Validate fails for the file at path
Fails(path) == ~TemplateValidate(TemplateFor(LoadTemplates, path).tmpl, FileAt(path)).ok

ErrPaths(errs) == [i \in DOMAIN errs |-> errs[i].path]

\* C12: every target is validated whatever happened to earlier ones (a failed
\* validation or a read error is recorded and the loop goes on); at the end
\* every recorded failure is printed, and the run fails (exit status 1, "at
\* least one file had errors") exactly when at least one file failed.
C12_AllTargetsValidated ==
    /\ run.pc = "exited" =>
          /\ run.validated = run.targets
          /\ ErrPaths(run.validationErrors) = SelectSeq(run.targets, Fails)
          /\ run.exit \in {0, 1}
          /\ run.exit = 1 <=> \E i \in DOMAIN run.targets : Fails(run.targets[i])
          /\ run.exit = 1 => run.output = run.validationErrors \o <<AtLeastOne>>
          /\ run.exit = 0 => run.output = <<>>
    /\ run.pc = "validating" => Len(run.validated) <= Len(run.targets)
    /\ run.pc # "panicked"

C12_Witness ==
    /\ run.pc = "exited" /\ run.exit = 1
    /\ Len(run.targets) = 4
    /\ run.validated = run.targets
    /\ \E i, j, k \in DOMAIN run.targets :
          /\ i < j /\ j < k
          /\ Fails(run.targets[i]) /\ FileAt(run.targets[i]).readable
          /\ ~FileAt(run.targets[j]).readable
          /\ ~Fails(run.targets[k])
    /\ \E i \in DOMAIN run.validationErrors :
          run.validationErrors[i].reason = "failed to read"
    /\ \E i \in DOMAIN run.validationErrors :
          run.validationErrors[i].reason = "missing boilerplate"

\* C13: go.mod, go.sum, go.work, go.work.sum and files named zz_generated* are
\* never targets, whether found by walking a directory or given as the path.
C13_ExceptionsNeverTargets ==
    \A i \in DOMAIN run.targets : ~isSkippedFile(run.targets[i])

BothDone(i, j) == calls[i].pc = "done" /\ calls[j].pc = "done" /\ calls[i].c = calls[j].c

OutcomeAt(t, c, y, r) ==
    LET year == IF r.loc.year = "" THEN y ELSE r.loc.year
        nl == Newline(c)
        boilExpect == BoilExpect(t, year, c)
        expect == HeadExpect(Slice(c, 0, r.start), nl) \o boilExpect
                  \o FootExpect(Slice(c, r.stop, Len(c)), nl)
    IN  /\ r.loc = findExistingBoilerplate(c)
        /\ r.year = year
        /\ r.boilExpect = boilExpect
        /\ r.expect = expect
        /\ r.ok = (c = expect)
        /\ r.reason = Reason(c, expect, Slice(c, r.start, r.stop))

C15_YearFromLocatorWhenFound ==
    (Validated /\ ~res.skipped)
    => /\ res.boilExpect = BoilExpect(tmpl, res.year, content)
       /\ res.found => res.year = res.loc.year
       /\ ~res.found => res.year = now

\* C15 (as amended): the year in the expected boilerplate is the year the
\* locator captured when it captured one, and the year of the clock when it
\* captured none: no block was found, or the copyright line of the block
\* found carries no valid year.
C15_YearFromLocatorOrClock ==
    (Validated /\ ~res.skipped)
    => /\ res.boilExpect = BoilExpect(tmpl, res.year, content)
       /\ res.loc.year # "" => (res.found /\ res.year = res.loc.year)
       /\ res.loc.year = "" => res.year = now
       /\ ~res.found => res.loc.year = ""

C15_Witness ==
    /\ phase = "validated" /\ ~res.skipped
    /\ res.found /\ res.loc.year = "" /\ res.year = now
    /\ Contains(res.boilExpect, <<CopyrightWord, SP, now>>)
    /\ Contains(content, <<CopyrightWord, SP, TXT>>)

\* the lines of the span [a, b) of c that match the copyright pattern lie
\* within [start, stop)
CopyrightLinesWithin(c, a, b, start, stop) ==
    \A p \in LineStarts(c) :
        (/\ a <= p - 1 /\ p - 1 < b
         /\ CopyrightRegexFind(TrimSpace(SubSeq(c, p, LineEnd(c, p)))) # <<>>)
        => (start <= p - 1 /\ LineEnd(c, p) <= stop)

\* C16: a comment block whose copyright line carries no valid year is taken
\* for the existing boilerplate: validation fails with "incorrect
\* boilerplate", and the expected content has the template with the year of
\* the clock in place of the block's copyright lines, not next to them.
C16_BadYearBlockReplaced ==
    (/\ phase = "validated" /\ ~res.skipped
     /\ WellFormedTemplate(tmpl)
     /\ res.found /\ res.loc.year = "")
    => /\ ~res.ok /\ res.reason = "incorrect boilerplate"
       /\ res.year = now
       /\ CopyrightLinesWithin(content, res.loc.start, res.loc.stop, res.start, res.stop)

\* C17 (as claimed): empty content fails with "missing boilerplate" and the
\* expected content is the template's lines followed by a blank line.
C17_EmptyGetsHeaderAndBlankLine ==
    (phase = "validated" /\ content = <<>>)
    => /\ ~res.ok /\ res.reason = "missing boilerplate"
       /\ res.expect = Canonical(tmpl, now) \o <<LF>>

\* C17 (as amended): empty content fails with "missing boilerplate" and the
\* expected content is exactly the template's text with the year of the clock:
\* its lines, the last one ended by one line break, and no blank line after.
C17_EmptyGetsHeaderOnly ==
    (phase = "validated" /\ content = <<>>)
    => /\ ~res.ok /\ res.reason = "missing boilerplate"
       /\ res.expect = Canonical(tmpl, now)
       /\ res.expect[Len(res.expect)] = LF
       /\ ~IsSpace(res.expect[Len(res.expect) - 1])

C17_Witness ==
    /\ phase = "validated" /\ content = <<>>
    /\ res.reason = "missing boilerplate"
    /\ res.expect = Canonical(tmpl, now)
    /\ Len(Lines(res.expect)) = 2

\* the end of the first run of build-constraint lines of s, and the end of its
\* first interpreter line; 0 when s has none
FirstBuildBlockEnd(s) ==
    LET at == {p \in LineStarts(s) : IsBuildLine(s, p)}
    IN  IF at = {} THEN 0 ELSE Max(BuildRunEnds(s, Min(at)))

FirstShebangEnd(s) ==
    LET at == {p \in LineStarts(s) : MatchAt(s, p, <<"#", "!">>) /\ s[LineEnd(s, p)] = LF}
    IN  IF at = {} THEN 0 ELSE LineEnd(s, Min(at))

ExemptPrefixEnd(kind, s) ==
    CASE kind = "go" -> FirstBuildBlockEnd(s)
      [] kind = "shebang" -> FirstShebangEnd(s)
      [] OTHER -> 0

\* the expected content with the boilerplate put in place of [start, stop)
ExpectAt(c, start, stop, boilExpect) ==
    HeadExpect(Slice(c, 0, start), Newline(c)) \o boilExpect
    \o FootExpect(Slice(c, stop, Len(c)), Newline(c))

\* C18: when the locator finds no block, start = stop = the end of the
\* build-constraint block (go) or of the interpreter line (sh, bash, py) of
\* the content, and 0 for a template without header-skip function; the
\* expected content is that prefix, one blank line, the boilerplate, the rest.
C18_HeaderAfterExemptPrefix ==
    (phase = "validated" /\ ~res.skipped /\ ~res.found)
    => /\ res.start = ExemptPrefixEnd(tmpl.skip, content)
       /\ res.stop = res.start
       /\ res.expect = ExpectAt(content, res.start, res.start, res.boilExpect)

\* C19: when the locator finds a block that begins with an interpreter line
\* (sh, bash, py) or with build-constraint lines (go) followed by more lines,
\* start is moved behind them: they stay in the head, the validation fails
\* with "incorrect boilerplate", and the expected content has one blank line
\* between them and the boilerplate.
C19_SkipInsideFoundBlock ==
    (phase = "validated" /\ ~res.skipped /\ res.found /\ tmpl.skip # "none")
    => LET span == Slice(content, res.loc.start, res.loc.stop)
           k == IF tmpl.skip = "go"
                THEN Max({0} \cup BuildRunEnds(span, 1))
                ELSE IF MatchAt(span, 1, <<"#", "!">>) THEN FirstShebangEnd(span) ELSE 0
       IN  (0 < k /\ k < Len(span))
           => /\ res.start = res.loc.start + k
              /\ res.stop = res.loc.stop
              /\ ~res.ok /\ res.reason = "incorrect boilerplate"
              /\ res.head = TrimSpace(Slice(content, 0, res.loc.start + k))
                             \o Newline(content) \o Newline(content)
              /\ res.expect = ExpectAt(content, res.loc.start + k, res.loc.stop,
                                       res.boilExpect)

\* C20: in every expected content a head that is not empty after trimming is
\* followed by exactly one blank line and then the boilerplate, an empty head
\* adds nothing (the boilerplate starts at offset 0); a non-empty foot follows
\* the boilerplate after exactly one blank line, its leading blank lines
\* removed; an empty foot adds nothing.
C20_SeparatorsAroundBoilerplate ==
    (Validated /\ ~res.skipped)
    => LET nl == Newline(content)
           h == TrimSpace(Slice(content, 0, res.start))
           f == Slice(content, res.stop, Len(content))
           rest == TrimLeftSpace(f)
           b == res.boilExpect
       IN  /\ b # <<>> /\ b[Len(b)] = LF
           /\ res.expect = (IF h = <<>> THEN <<>> ELSE h \o nl \o nl) \o b
                            \o (IF f = <<>> THEN <<>> ELSE nl \o rest)
           /\ h # <<>> => ~IsSpace(h[Len(h)])
           /\ h = <<>> => SubSeq(res.expect, 1, Len(b)) = b
           /\ rest # <<>> => ~IsSpace(rest[1])

C20_Witness ==
    /\ phase = "validated" /\ ~res.skipped /\ ~res.ok
    /\ res.found
    /\ TrimSpace(Slice(content, 0, res.start)) # <<>>
    /\ IsSpace(content[res.start])
    /\ res.stop + 2 <= Len(content)
    /\ IsSpace(content[res.stop + 1]) /\ IsSpace(content[res.stop + 2])
    /\ TrimLeftSpace(Slice(content, res.stop, Len(content))) # <<>>

\* s from the start of its first line that is not blank; <<>> when all of s
\* is white space
FromFirstNonBlankLine(s) ==
    LET keep == {i \in 1..Len(s) : ~IsSpace(s[i])}
    IN  IF keep = {} THEN <<>>
        ELSE SubSeq(s, Max({p \in LineStarts(s) : p <= Min(keep)}), Len(s))

\* s without its leading blank lines and without what follows its last
\* character that is not white space
WithoutBlankLinesAround(s) ==
    LET keep == {i \in 1..Len(s) : ~IsSpace(s[i])}
    IN  IF keep = {} THEN <<>>
        ELSE SubSeq(s, Max({p \in LineStarts(s) : p <= Min(keep)}), Max(keep))

\* C21: the expected content carries the foot over unchanged from its first
\* non-blank line onward, that line's indentation included, and the head
\* unchanged apart from the blank lines removed at its start and its end.
C21_OutsideCarriedOver ==
    (Validated /\ ~res.skipped)
    => /\ HasSuffix(res.foot,
                    FromFirstNonBlankLine(Slice(content, res.stop, Len(content))))
       /\ HasPrefix(res.head,
                    WithoutBlankLinesAround(Slice(content, 0, res.start)))

\* offset at which line k of lines starts (k - 1 lines before it)
RECURSIVE LineOffset(_, _)
LineOffset(lines, k) ==
    IF k <= 1 THEN 0 ELSE LineOffset(lines, k - 1) + Len(lines[k - 1])

IsCopyrightLine(line) == Len(CopyrightRegexFind(TrimSpace(line))) = 2

\* the lines j..(k - 1) that lie at or after offset a and match the copyright
\* pattern
CopyrightLinesOfBlock(lines, a, k) ==
    {j \in 1..(k - 1) : LineOffset(lines, j) >= a /\ IsCopyrightLine(lines[j])}

LeadOf(inblock) == IF inblock = "#" THEN <<"#">> ELSE <<"/", "/">>

\* the locator is in a line-comment state when it reads line k
InLineComment(lines, k) ==
    /\ ~LocAfter(lines, k - 1).done
    /\ LocAfter(lines, k - 1).inblock \in {"//", "#"}

\* C22: in a line-comment state the locator stays in the state while the
\* trimmed line starts with the lead; the first line that does not ends the
\* block at the offset of that line's start, and the block is returned as
\* (start, stop, year) exactly when one of its own lines matches the
\* copyright pattern; otherwise start and isBoiler are reset and the scan
\* goes on.
C22_LineCommentBlockEnd ==
    (phase = "validated" /\ ~res.skipped)
    => \A k \in DOMAIN Lines(content) :
          InLineComment(Lines(content), k)
          => LET lines == Lines(content)
                 st == LocAfter(lines, k - 1)
                 after == LocAfter(lines, k)
                 own == CopyrightLinesOfBlock(lines, st.start, k)
             IN  IF HasPrefix(TrimSpace(lines[k]), LeadOf(st.inblock))
                 THEN /\ ~after.done
                      /\ after.inblock = st.inblock /\ after.start = st.start
                 ELSE /\ after.done <=> own # {}
                      /\ after.done
                         => /\ after.rstart = st.start
                            /\ after.rstop = LineOffset(lines, k)
                            /\ after.ryear = CopyrightRegexFind(TrimSpace(lines[Max(own)]))[2]
                      /\ ~after.done
                         => /\ after.inblock = "" /\ after.start = -1
                            /\ ~after.isBoiler

\* line k ends a line-comment block none of whose own lines matches the
\* copyright pattern
EndsBlockWithoutCopyright(lines, k) ==
    /\ InLineComment(lines, k)
    /\ ~HasPrefix(TrimSpace(lines[k]), LeadOf(LocAfter(lines, k - 1).inblock))
    /\ CopyrightLinesOfBlock(lines, LocAfter(lines, k - 1).start, k) = {}

\* C23: the line that ends a line-comment block without copyright line is not
\* looked at as the opener of a block: after it the locator is outside any
\* block with start = -1, whatever the line begins with, and the block the
\* locator reports in the end does not start on that line.
C23_EndingLineOpensNoBlock ==
    (phase = "validated" /\ ~res.skipped)
    => \A k \in DOMAIN Lines(content) :
          EndsBlockWithoutCopyright(Lines(content), k)
          => /\ ~LocAfter(Lines(content), k).done
             /\ LocAfter(Lines(content), k).inblock = ""
             /\ LocAfter(Lines(content), k).start = -1
             /\ res.loc.start # LineOffset(Lines(content), k)

NotFound == [start |-> -1, stop |-> -1, year |-> ""]

\* C24: when the scan reaches the end of the input inside a comment block one
\* of whose lines matches the copyright pattern, the locator returns that
\* block with stop = the length of the content; when it reaches the end
\* inside a block without such a line, or outside any block, it returns the
\* not-found sentinel; a file that is exactly the header is located and
\* validates.
C24_EndOfInput ==
    (phase = "validated" /\ ~res.skipped)
    => /\ ~LocAfter(Lines(content), Len(Lines(content))).done
          => LET lines == Lines(content)
                 st == LocAfter(lines, Len(lines))
             IN  IF /\ st.inblock # ""
                    /\ CopyrightLinesOfBlock(lines, st.start, Len(lines) + 1) # {}
                 THEN /\ res.found
                      /\ res.loc.start = st.start
                      /\ res.loc.stop = Len(content)
                 ELSE res.loc = NotFound
       /\ (WellFormedTemplate(tmpl) /\ \E y \in Years : content = Canonical(tmpl, y))
          => res.found /\ res.ok

\* the locator reads line k inside a /* block, or outside any block with
\* line k opening one
InStarBlock(lines, k) ==
    /\ ~LocAfter(lines, k - 1).done
    /\ \/ LocAfter(lines, k - 1).inblock = "/*"
       \/ /\ LocAfter(lines, k - 1).inblock = ""
          /\ HasPrefix(TrimSpace(lines[k]), <<"/", "*">>)

StarBlockStart(lines, k) ==
    IF LocAfter(lines, k - 1).inblock = "/*"
    THEN LocAfter(lines, k - 1).start
    ELSE LineOffset(lines, k)

\* C25: a /* block ends on the line that contains "*/", the opening line or a
\* later one, wherever the closer stands on the line; the block is returned
\* as (start, stop, year), stop behind that whole line, when one of its lines
\* matches the copyright pattern; otherwise start and isBoiler are reset and
\* the locator is outside any block.
C25_StarBlockEnd ==
    (phase = "validated" /\ ~res.skipped)
    => \A k \in DOMAIN Lines(content) :
          (InStarBlock(Lines(content), k) /\ Contains(Lines(content)[k], <<"*", "/">>))
          => LET lines == Lines(content)
                 after == LocAfter(lines, k)
                 own == CopyrightLinesOfBlock(lines, StarBlockStart(lines, k), k + 1)
             IN  /\ after.done <=> own # {}
                 /\ after.done
                    => /\ after.rstart = StarBlockStart(lines, k)
                       /\ after.rstop = LineOffset(lines, k + 1)
                       /\ after.ryear = CopyrightRegexFind(TrimSpace(lines[Max(own)]))[2]
                 /\ ~after.done
                    => /\ after.inblock = "" /\ after.start = -1
                       /\ ~after.isBoiler

\* the lines of the span [a, b) that match the copyright pattern
CopyrightLinesOfSpan(lines, a, b) ==
    {j \in DOMAIN lines :
        a <= LineOffset(lines, j) /\ LineOffset(lines, j) < b /\ IsCopyrightLine(lines[j])}

\* C26: the block the locator reports is the first comment block with a
\* copyright line (no comment line before it matches the copyright pattern);
\* its year is the one of the last line of the block that matches the
\* pattern; the lines after the block have no influence: the content cut off
\* at the block's end gives the same span and year.
C26_FirstBlockLastYear ==
    (phase = "validated" /\ ~res.skipped /\ res.found)
    => LET lines == Lines(content)
           own == CopyrightLinesOfSpan(lines, res.loc.start, res.loc.stop)
       IN  /\ \A j \in DOMAIN lines :
                 (IsCommentLine(lines[j]) /\ IsCopyrightLine(lines[j]))
                 => LineOffset(lines, j) >= res.loc.start
           /\ own # {}
              => res.loc.year = CopyrightRegexFind(TrimSpace(lines[Max(own)]))[2]
           /\ findExistingBoilerplate(Slice(content, 0, res.loc.stop)) = res.loc

\* C27: the offsets analyzeFile splits the content at satisfy
\* 0 <= start <= stop <= len(content), the three parts put together are the
\* content, and when the locator found a block the boilerplate part lies
\* inside the located block and ends where it ends.
C27_SplitWithinContent ==
    (Validated /\ ~res.skipped)
    => LET a == analyzeFile(tmpl, content)
       IN  /\ res.start = a.start /\ res.stop = a.stop
           /\ 0 <= a.start /\ a.start <= a.stop /\ a.stop <= Len(content)
           /\ a.head \o a.boil \o a.foot = content
           /\ Len(a.head) = a.start /\ Len(a.boil) = a.stop - a.start
           /\ a.found
              => /\ a.loc.start <= a.start
                 /\ a.stop = a.loc.stop

C27_Witness ==
    /\ phase = "validated" /\ ~res.skipped
    /\ tmpl.skip # "none"
    /\ res.found
    /\ res.loc.start < res.start
    /\ res.start < res.stop /\ res.stop < Len(content)

====
